---- MODULE Spec2Model ----
(***************************************************************************)
(* Model of app.py, the personal finance dashboard.                        *)
(*                                                                         *)
(* Text is a sequence of one-character strings, so that trimming,          *)
(* case-insensitive search and numeric parsing are computed character by   *)
(* character as pandas computes them.  A sheet is the published CSV: a     *)
(* header line and rows of cells.  One run of the script is one action.    *)
(***************************************************************************)
EXTENDS Integers, Sequences, FiniteSets, TLC

VARIABLES
    sheet,      \* the external spreadsheet: [headers, rows], raw cell text
    clock,      \* seconds
    data_cache, \* st.cache_data entry of load_data(): <<>> or <<[value, t, src]>>
    ai_cache,   \* st.cache_data entries of generate_ai_insights_cached
    narrated,   \* history: per period_key, the last narrative memoized
    lib,        \* what the installed libraries do where their behaviour differs
    view,       \* what the last run of the script rendered
    presses     \* history: how often the generate button was pressed

vars == <<sheet, clock, data_cache, ai_cache, narrated, lib, view, presses>>

Range(s) == {s[i] : i \in DOMAIN s}

\* The sequence [i \in 1..n |-> e], with its elements computed once.
as_seq(f) == f \o <<>>

(***************************************************************************)
(* Text literals of the program.                                           *)
(***************************************************************************)
T_Date == <<"D", "a", "t", "e">>
T_Title == <<"T", "i", "t", "l", "e">>
T_Category == <<"C", "a", "t", "e", "g", "o", "r", "y">>
T_Type == <<"T", "y", "p", "e">>
T_Amount == <<"A", "m", "o", "u", "n", "t">>
T_Actual == <<"A", "c", "t", "u", "a", "l">>
T_Expected == <<"E", "x", "p", "e", "c", "t", "e", "d">>
T_Income == <<"I", "n", "c", "o", "m", "e">>
T_Investment == <<"I", "n", "v", "e", "s", "t", "m", "e", "n", "t">>
T_Investments == <<"I", "n", "v", "e", "s", "t", "m", "e", "n", "t", "s">>
T_Mortgage == <<"M", "o", "r", "t", "g", "a", "g", "e">>
T_nan == <<"n", "a", "n">>

\* The replacement written at line 43 of app.py.
CategoryFill ==
    <<"U", "n", "c", "a", "t", "e", "g", "o", "r", "i", "z", "e", "d", " ",
      "r", "e", "m", "e", "m", "b", "e", "r", "i", "n", "g">>

\* A missing value of a text column (numpy.nan); no text equals it.
NaN == <<"NaN">>
\* A missing date (pandas.NaT) and the month name derived from it.
NaT == [y |-> 0, m |-> 0, d |-> 0]
NoMonth == "NaN"

(***************************************************************************)
(* str methods                                                             *)
(***************************************************************************)
Whitespace == {" ", "\t"}

RECURSIVE lstrip(_)
lstrip(s) ==
    IF s # <<>> /\ Head(s) \in Whitespace THEN lstrip(Tail(s)) ELSE s

RECURSIVE rstrip(_)
rstrip(s) ==
    IF s # <<>> /\ s[Len(s)] \in Whitespace
    THEN rstrip(SubSeq(s, 1, Len(s) - 1))
    ELSE s

\* Series.str.strip()
strip(s) == rstrip(lstrip(s))

\* Series.str.replace(ch, "", regex=False) for a one-character pattern
str_remove(s, ch) == SelectSeq(s, LAMBDA c : c # ch)

UpperChars ==
    <<"A", "B", "C", "D", "E", "F", "G", "H", "I", "J", "K", "L", "M",
      "N", "O", "P", "Q", "R", "S", "T", "U", "V", "W", "X", "Y", "Z">>
LowerChars ==
    <<"a", "b", "c", "d", "e", "f", "g", "h", "i", "j", "k", "l", "m",
      "n", "o", "p", "q", "r", "s", "t", "u", "v", "w", "x", "y", "z">>

LowerOf ==
    [c \in Range(UpperChars) |->
       LowerChars[CHOOSE i \in DOMAIN UpperChars : UpperChars[i] = c]]

lower_char(c) == IF c \in DOMAIN LowerOf THEN LowerOf[c] ELSE c

lower(s) == as_seq([i \in DOMAIN s |-> lower_char(s[i])])

\* Series.str.contains(pat, case=False, na=False) for a pattern without
\* regular-expression metacharacters: a case-insensitive substring search.
str_contains(s, pat) ==
    /\ s # NaN
    /\ LET ls == lower(s)
           lp == lower(pat)
       IN \E i \in 1..(Len(s) - Len(pat) + 1) :
             SubSeq(ls, i, i + Len(pat) - 1) = lp

(***************************************************************************)
(* Reading the CSV and cleaning it: load_csv and load_data                 *)
(***************************************************************************)
\* pandas.read_csv turns an empty cell into a missing value.
read_cell(c) == IF c = <<>> THEN NaN ELSE c

\* load_csv: the table as read, cells by position under the header line.
load_csv(src) ==
    [headers |-> src.headers,
     rows |-> as_seq([r \in DOMAIN src.rows |->
                 as_seq([i \in DOMAIN src.rows[r] |-> read_cell(src.rows[r][i])])])]

\* Series.astype(str): str() of every value, "nan" for a missing one.
astype_str(x) == IF x = NaN THEN T_nan ELSE x

\* Variant without line 32: the headers as they are written.
columns_unstripped(raw) == raw.headers

\* df.columns.str.strip()
columns(raw) == as_seq([i \in DOMAIN raw.headers |-> strip(raw.headers[i])])

required_cols == <<T_Date, T_Title, T_Category, T_Type, T_Amount>>

\* missing = [c for c in required_cols if c not in df.columns]
missing_cols(cols) == SelectSeq(required_cols, LAMBDA c : c \notin Range(cols))

col_index(cols, name) == CHOOSE i \in DOMAIN cols : cols[i] = name

\* .replace("", <fill>) on a Series: a value that is exactly "" is replaced.
clean_category(x) ==
    LET t == strip(astype_str(x)) IN IF t = <<>> THEN CategoryFill ELSE t

clean_text(x) == strip(astype_str(x))

Digits == <<"0", "1", "2", "3", "4", "5", "6", "7", "8", "9">>
IsDigit(c) == \E i \in DOMAIN Digits : Digits[i] = c
digit_val(c) == (CHOOSE i \in DOMAIN Digits : Digits[i] = c) - 1

RECURSIVE digits_val(_)
digits_val(s) ==
    IF s = <<>> THEN 0
    ELSE 10 * digits_val(SubSeq(s, 1, Len(s) - 1)) + digit_val(s[Len(s)])

AllDigits(s) == s # <<>> /\ \A i \in DOMAIN s : IsDigit(s[i])

\* pd.to_numeric(errors="coerce") on text holding a whole amount: optional
\* surrounding whitespace, optional sign, digits.  Anything else is not a
\* number and coerces to a missing value, reported here as [ok |-> FALSE].
to_numeric(s) ==
    LET t == strip(s)
        signed == t # <<>> /\ Head(t) \in {"-", "+"}
        body == IF signed THEN Tail(t) ELSE t
    IN IF AllDigits(body)
       THEN [ok |-> TRUE,
             val |-> IF signed /\ Head(t) = "-"
                     THEN 0 - digits_val(body) ELSE digits_val(body)]
       ELSE [ok |-> FALSE, val |-> 0]

\* Variant of line 51 that fills a missing amount with 1.
clean_amount_fill_one(x) ==
    LET n == to_numeric(str_remove(str_remove(astype_str(x), ","), "$"))
    IN IF n.ok THEN n.val ELSE 1

\* lines 47-52: strip "," and "$", coerce, fill missing values with 0
clean_amount(x) ==
    LET n == to_numeric(str_remove(str_remove(astype_str(x), ","), "$"))
    IN IF n.ok THEN n.val ELSE 0

DaysIn(y, m) ==
    IF m \in {4, 6, 9, 11} THEN 30
    ELSE IF m = 2
         THEN (IF y % 4 = 0 /\ (y % 100 # 0 \/ y % 400 = 0) THEN 29 ELSE 28)
         ELSE 31

\* pd.to_datetime(errors="coerce") on YYYY-MM-DD text; text that is no date
\* (or an impossible date) becomes NaT.
to_datetime(x) ==
    LET s == astype_str(x) IN
    IF /\ Len(s) = 10
       /\ s[5] = "-" /\ s[8] = "-"
       /\ AllDigits(SubSeq(s, 1, 4))
       /\ AllDigits(SubSeq(s, 6, 7))
       /\ AllDigits(SubSeq(s, 9, 10))
    THEN LET y == digits_val(SubSeq(s, 1, 4))
             m == digits_val(SubSeq(s, 6, 7))
             d == digits_val(SubSeq(s, 9, 10))
         IN IF y >= 1 /\ m \in 1..12 /\ d \in 1..DaysIn(y, m)
            THEN [y |-> y, m |-> m, d |-> d]
            ELSE NaT
    ELSE NaT

MONTH_ORDER ==
    <<"January", "February", "March", "April", "May", "June",
      "July", "August", "September", "October", "November", "December">>

\* Series.dt.month_name()
month_name(dt) == IF dt = NaT THEN NoMonth ELSE MONTH_ORDER[dt.m]

\* load_data below the column check: one cleaned record per source row.
clean_rows(raw) ==
    LET cols == columns(raw)
        cell(r, name) == raw.rows[r][col_index(cols, name)]
    IN as_seq([r \in DOMAIN raw.rows |->
          LET dt == to_datetime(cell(r, T_Date)) IN
          [Date |-> dt,
           Title |-> clean_text(cell(r, T_Title)),
           Category |-> clean_category(cell(r, T_Category)),
           Type |-> clean_text(cell(r, T_Type)),
           Amount |-> clean_amount(cell(r, T_Amount)),
           Month |-> month_name(dt)]])

(***************************************************************************)
(* Ordering of text (code point order) and generic table helpers           *)
(***************************************************************************)
CharOrder ==
    <<"\t", " ", "$", "+", ",", "-", "/">> \o Digits \o UpperChars \o LowerChars

CharCode ==
    [c \in Range(CharOrder) |-> CHOOSE i \in DOMAIN CharOrder : CharOrder[i] = c]

char_code(c) == CharCode[c]

RECURSIVE text_lt(_, _)
text_lt(a, b) ==
    IF b = <<>> THEN FALSE
    ELSE IF a = <<>> THEN TRUE
    ELSE IF Head(a) # Head(b) THEN char_code(Head(a)) < char_code(Head(b))
    ELSE text_lt(Tail(a), Tail(b))

\* The keys of a groupby on a text column come out sorted (sort=True).
RECURSIVE sorted_texts(_)
sorted_texts(S) ==
    IF S = {} THEN <<>>
    ELSE LET m == CHOOSE x \in S : \A y \in S : x = y \/ text_lt(x, y)
         IN <<m>> \o sorted_texts(S \ {m})

RECURSIVE sum_amount(_)
sum_amount(rows) ==
    IF rows = <<>> THEN 0 ELSE Head(rows).Amount + sum_amount(Tail(rows))

\* Sort of a sequence by the integer keys[i] of its elements s[i], ascending.
\* Elements with equal keys keep their order when stable, and come out in the
\* opposite order otherwise.
RECURSIVE insert_keyed(_, _, _)
insert_keyed(acc, x, stable) ==
    IF acc = <<>> THEN <<x>>
    ELSE LET last == acc[Len(acc)]
         IN IF last[1] < x[1] \/ (last[1] = x[1] /\ stable)
            THEN Append(acc, x)
            ELSE Append(insert_keyed(SubSeq(acc, 1, Len(acc) - 1), x, stable), last)

RECURSIVE sort_keyed(_, _, _)
sort_keyed(keys, n, stable) ==
    IF n = 0 THEN <<>>
    ELSE insert_keyed(sort_keyed(keys, n - 1, stable), <<keys[n], n>>, stable)

sort_by_key(s, keys, stable) ==
    LET order == sort_keyed(keys, Len(s), stable)
    IN as_seq([k \in DOMAIN s |-> s[order[k][2]]])

head(s, n) == SubSeq(s, 1, IF Len(s) < n THEN Len(s) ELSE n)

tail(s, n) == SubSeq(s, IF Len(s) < n THEN 1 ELSE Len(s) - n + 1, Len(s))

(***************************************************************************)
(* The filters and the aggregate tables of the script                      *)
(***************************************************************************)
\* line 87: df[df["Month"].isin(selected_months)]; a missing month is in no list
df_filtered(df, selected_months) ==
    SelectSeq(df, LAMBDA r : r.Month \in Range(selected_months))

EXCLUDED_CATEGORIES == <<T_Income, T_Investment, T_Investments>>

\* Variant of line 93 that excludes Investment and Investments only.
expense_df_with_income(dff) ==
    SelectSeq(dff, LAMBDA r : r.Category \notin {T_Investment, T_Investments})

\* line 95
expense_df(dff) ==
    SelectSeq(dff, LAMBDA r : r.Category \notin Range(EXCLUDED_CATEGORIES))

of_type(rows, t) == SelectSeq(rows, LAMBDA r : r.Type = t)

\* lines 102-113
key_metrics(dff, exp) ==
    LET expected == of_type(exp, T_Expected)
        actual == of_type(exp, T_Actual)
        income == SelectSeq(dff, LAMBDA r : r.Category = T_Income
                                             /\ r.Type = T_Actual)
        expected_expenses == sum_amount(expected)
        actual_expenses == sum_amount(actual)
        income_actual == sum_amount(income)
    IN [expected_expenses |-> expected_expenses,
        actual_expenses |-> actual_expenses,
        variance_expenses |-> actual_expenses - expected_expenses,
        income_actual |-> income_actual,
        net_variance |-> income_actual - actual_expenses]

\* line 128
chart_df(exp) == SelectSeq(exp, LAMBDA r : ~str_contains(r.Category, T_Mortgage))

RECURSIVE flatten(_)
flatten(ss) == IF ss = <<>> THEN <<>> ELSE Head(ss) \o flatten(Tail(ss))

\* groupby(["Category", "Type"], as_index=False)["Amount"].sum(): one record
\* per pair that occurs, in key order.
groupby_category_type(rows) ==
    LET cats == sorted_texts({rows[i].Category : i \in DOMAIN rows})
        group(c) ==
            LET of_c == SelectSeq(rows, LAMBDA r : r.Category = c)
                types == sorted_texts({of_c[i].Type : i \in DOMAIN of_c})
            IN as_seq([k \in DOMAIN types |->
                  [Category |-> c, Type |-> types[k],
                   Amount |-> sum_amount(of_type(of_c, types[k]))]])
    IN flatten(as_seq([i \in DOMAIN cats |-> group(cats[i])]))

\* lines 130-134
summary_df(chart) == groupby_category_type(chart)

\* groupby("Month", as_index=False)["Amount"].sum() on the categorical Month
\* column of line 74.  With observed=False every category gets a group (sum 0
\* when it has no row); with observed=True only the months that have rows.
groupby_month(rows, observed) ==
    LET months == SelectSeq(MONTH_ORDER, LAMBDA m :
                      ~observed \/ \E i \in DOMAIN rows : rows[i].Month = m)
    IN as_seq([k \in DOMAIN months |->
          [Month |-> months[k],
           Amount |-> sum_amount(SelectSeq(rows, LAMBDA r : r.Month = months[k]))]])

MonthIndex ==
    [m \in Range(MONTH_ORDER) |-> CHOOSE i \in DOMAIN MONTH_ORDER : MONTH_ORDER[i] = m]

month_index(m) == MonthIndex[m]

\* sort_values("Month") on the ordered categorical
sort_by_month(t, stable) ==
    sort_by_key(t, as_seq([i \in DOMAIN t |-> month_index(t[i].Month)]), stable)

\* lines 152-157
monthly_trend(exp, L) ==
    sort_by_month(groupby_month(of_type(exp, T_Actual), L.observed), L.stable)

\* groupby(key, as_index=False)["Amount"].sum() on a text column
groupby_title(rows) ==
    LET keys == sorted_texts({rows[i].Title : i \in DOMAIN rows})
    IN as_seq([k \in DOMAIN keys |->
          [Title |-> keys[k],
           Amount |-> sum_amount(SelectSeq(rows, LAMBDA r : r.Title = keys[k]))]])

groupby_category(rows) ==
    LET keys == sorted_texts({rows[i].Category : i \in DOMAIN rows})
    IN as_seq([k \in DOMAIN keys |->
          [Category |-> keys[k],
           Amount |-> sum_amount(SelectSeq(rows, LAMBDA r : r.Category = keys[k]))]])

\* Variant of line 181 that sorts ascending.
sort_amount_asc(t, stable) ==
    sort_by_key(t, as_seq([i \in DOMAIN t |-> t[i].Amount]), stable)

\* sort_values("Amount", ascending=False)
sort_amount_desc(t, stable) ==
    sort_by_key(t, as_seq([i \in DOMAIN t |-> 0 - t[i].Amount]), stable)

TopN == 10

\* lines 174-183
top10(exp, L) ==
    head(sort_amount_desc(
             groupby_title(SelectSeq(exp, LAMBDA r :
                 r.Type = T_Actual /\ ~str_contains(r.Category, T_Mortgage))),
             L.stable),
         TopN)

\* .pivot(index="Category", columns="Type", values="Amount").fillna(0), read
\* through .get("Actual", 0) and .get("Expected", 0): the cell of a pair that
\* does not occur is 0.
pivot_cell(summary, c, t) ==
    IF \E i \in DOMAIN summary : summary[i].Category = c /\ summary[i].Type = t
    THEN summary[CHOOSE i \in DOMAIN summary :
                   summary[i].Category = c /\ summary[i].Type = t].Amount
    ELSE 0

pivot_rows(summary, cats) ==
    as_seq([k \in DOMAIN cats |->
        [Category |-> cats[k],
         Actual |-> pivot_cell(summary, cats[k], T_Actual),
         Expected |-> pivot_cell(summary, cats[k], T_Expected)]])

pivot(summary) ==
    pivot_rows(summary, sorted_texts({summary[i].Category : i \in DOMAIN summary}))

\* Variant of line 208 with the operands exchanged.
with_variance_swapped(p) ==
    as_seq([k \in DOMAIN p |->
        [Category |-> p[k].Category, Actual |-> p[k].Actual,
         Expected |-> p[k].Expected,
         Variance |-> p[k].Expected - p[k].Actual]])

\* line 208: variance_df["Variance"] = Actual - Expected
with_variance(p) ==
    as_seq([k \in DOMAIN p |->
        [Category |-> p[k].Category, Actual |-> p[k].Actual,
         Expected |-> p[k].Expected,
         Variance |-> p[k].Actual - p[k].Expected]])

\* lines 204-211
variance_df(summary) == with_variance(pivot(summary))

\* A date as a number that orders as the date does.
date_ordinal(dt) == dt.y * 10000 + dt.m * 100 + dt.d

\* The place of text x among the texts of S in code point order.
text_rank(x, S) == Cardinality({y \in S : text_lt(y, x)})

title_keys(rows) ==
    as_seq([i \in DOMAIN rows |->
        text_rank(rows[i].Title, {rows[j].Title : j \in DOMAIN rows})])

by_title(rows) == sort_by_key(rows, title_keys(rows), TRUE)

date_desc_keys(rows) ==
    as_seq([i \in DOMAIN rows |-> 0 - date_ordinal(rows[i].Date)])

by_date_desc(rows) == sort_by_key(rows, date_desc_keys(rows), TRUE)

\* lines 226-230: sort_values(["Date", "Title"], ascending=[False, True]),
\* a lexicographic sort: by Title, then stably by Date descending.
raw_view(dff) == by_date_desc(by_title(dff))

(***************************************************************************)
(* The insight payload: build_insight_payload                              *)
(***************************************************************************)
\* Python's None
None == [none |-> TRUE]

\* _safe_float: float(x); every value it is given is a sum, so the except
\* branch is never taken and the number is returned.
safe_float(x) == x

TopCategories == 5

\* lines 274-283: the pivot of the expense rows with its delta column
\* line 283: by_cat_pivot["delta"] = Actual - Expected
with_delta(p) ==
    as_seq([k \in DOMAIN p |->
        [Category |-> p[k].Category, Actual |-> p[k].Actual,
         Expected |-> p[k].Expected, delta |-> p[k].Actual - p[k].Expected]])

by_cat_pivot(exp) == with_delta(pivot(groupby_category_type(exp)))

\* sort_values("delta", ascending=...)
sort_by_delta(p, ascending, stable) ==
    sort_by_key(p,
                as_seq([i \in DOMAIN p |->
                    IF ascending THEN p[i].delta ELSE 0 - p[i].delta]),
                stable)

\* lines 285-300: row 0 of the pivot sorted by delta, or None
biggest(sorted) ==
    IF Len(sorted) > 0
    THEN [Category |-> sorted[1].Category,
          delta |-> safe_float(sorted[1].delta),
          Actual |-> safe_float(sorted[1].Actual),
          Expected |-> safe_float(sorted[1].Expected)]
    ELSE None

\* lines 302-322
\* lines 314-322
mom_of(last_two) ==
    [prev_month |-> last_two[1].Month,
     prev_amount |-> safe_float(last_two[1].Amount),
     last_month |-> last_two[2].Month,
     last_amount |-> safe_float(last_two[2].Amount),
     change |-> safe_float(last_two[2].Amount) - safe_float(last_two[1].Amount)]

\* lines 312-313
mom_from(monthly_actual) ==
    IF Len(monthly_actual) >= 2 THEN mom_of(tail(monthly_actual, 2)) ELSE None

month_over_month(exp, L) ==
    IF \E i \in DOMAIN exp : exp[i].Month # NoMonth
    THEN mom_from(sort_by_month(groupby_month(of_type(exp, T_Actual), L.observed),
                                L.stable))
    ELSE None

\* lines 247-342
build_insight_payload(dff, exp, selected_months, L) ==
    LET expected == of_type(exp, T_Expected)
        actual == of_type(exp, T_Actual)
        income == SelectSeq(dff, LAMBDA r : r.Category = T_Income
                                             /\ r.Type = T_Actual)
        expected_exp == sum_amount(expected)
        actual_exp == sum_amount(actual)
        income_actual_local == sum_amount(income)
        savings_actual == income_actual_local - actual_exp
        by_cat_actual == sort_amount_desc(groupby_category(actual), L.stable)
        p == by_cat_pivot(exp)
    IN [period_months |-> selected_months,
        totals |-> [expected_expenses |-> safe_float(expected_exp),
                    actual_expenses |-> safe_float(actual_exp),
                    income_actual |-> safe_float(income_actual_local),
                    savings_actual |-> safe_float(savings_actual),
                    variance_expenses |-> safe_float(actual_exp - expected_exp)],
        top_categories_actual |-> head(by_cat_actual, TopCategories),
        biggest_over_budget |-> biggest(sort_by_delta(p, FALSE, L.stable)),
        biggest_under_budget |-> biggest(sort_by_delta(p, TRUE, L.stable)),
        month_over_month |-> month_over_month(exp, L)]

\* line 239: ",".join(selected_months)
RECURSIVE period_key(_)
period_key(selected_months) ==
    IF selected_months = <<>> THEN ""
    ELSE IF Len(selected_months) = 1 THEN selected_months[1]
    ELSE selected_months[1] \o "," \o period_key(Tail(selected_months))

(***************************************************************************)
(* One run of the script                                                   *)
(***************************************************************************)
DATA_TTL == 60
AI_TTL == 3600

\* What is on the page below the load: lines 74-230 and 399-407.
render(df, selected_months, L) ==
    LET dff == df_filtered(df, selected_months)
        exp == expense_df(dff)
        chart == chart_df(exp)
        summary == summary_df(chart)
    IN [metrics |-> key_metrics(dff, exp),
        summary |-> summary,
        trend |-> monthly_trend(exp, L),
        top10 |-> top10(exp, L),
        variance |-> variance_df(summary),
        raw |-> raw_view(dff),
        payload |-> build_insight_payload(dff, exp, selected_months, L)]

\* A cache entry is served while clock < t + ttl.
Fresh(e, ttl) == clock < e.t + ttl

\* What the call of generate_ai_insights_cached comes to when it is not served
\* from the cache: the completion text, the missing-key error value (returned,
\* so memoized, with no request sent), or an exception of the request (nothing
\* memoized).
\* The completion text of the n-th press of the button; no two requests are
\* answered with the same text.
Completion(n) == <<"narrative", n>>

Replies == {<<"text", Completion(presses + 1)>>, <<"nokey", <<>>>>, <<"raise", <<>>>>}

NoReply == <<"none", <<>>>>

\* One run of the script.  refresh: the Refresh Data button was pressed;
\* selected_months: the multiselect; buttons: the states the generate button
\* may be in.
Run(refresh, selected_months, buttons) ==
    LET \* lines 61-62: st.cache_data.clear() empties every st.cache_data cache
        dc == IF refresh THEN <<>> ELSE data_cache
        ac == IF refresh THEN {} ELSE ai_cache
        hit == dc # <<>> /\ Fresh(dc[1], DATA_TTL)
        raw == load_csv(sheet)
        missing == IF hit THEN <<>> ELSE missing_cols(columns(raw))
        entry == IF hit THEN dc[1]
                 ELSE [value |-> clean_rows(raw), t |-> clock, src |-> sheet]
        pk == period_key(selected_months)
        known == {n \in narrated : n.period_key = pk /\ Fresh(n, AI_TTL)}
        prior == IF known = {} THEN None ELSE CHOOSE n \in known : TRUE
    IN IF missing # <<>>
       THEN \* lines 37-39: st.error, st.stop; nothing is memoized
            /\ view' = [selected_months |-> selected_months, generate |-> FALSE,
                        loaded |-> TRUE, src |-> sheet,
                        halted |-> TRUE, error |-> missing, df |-> <<>>,
                        out |-> None, ai |-> None, ai_called |-> FALSE,
                        prior |-> prior]
            /\ data_cache' = dc
            /\ ai_cache' = ac
            /\ UNCHANGED <<sheet, clock, narrated, lib, presses>>
       ELSE LET out == render(entry.value, selected_months, lib)
                live == {e \in ac : /\ e.period_key = pk
                                    /\ e.payload = out.payload
                                    /\ Fresh(e, AI_TTL)}
                stale == {e \in ac : e.period_key = pk /\ e.payload = out.payload}
            IN \E generate \in buttons :
               \E reply \in IF generate THEN Replies ELSE {NoReply} :
               LET served == generate /\ live # {}
                   value == IF served THEN (CHOOSE e \in live : TRUE).value
                            ELSE IF reply[1] = "text"
                                 THEN [kind |-> "text", text |-> reply[2]]
                                 ELSE [kind |-> "error", text |-> <<>>]
                   memoize == generate /\ ~served /\ reply[1] # "raise"
               IN /\ view' = [selected_months |-> selected_months,
                              generate |-> generate,
                              loaded |-> ~hit, src |-> entry.src,
                              halted |-> FALSE, error |-> <<>>,
                              df |-> entry.value, out |-> out,
                              ai |-> IF ~generate THEN None
                                     ELSE IF ~served /\ reply[1] = "raise"
                                          THEN [kind |-> "exception", text |-> <<>>]
                                          ELSE value,
                              ai_called |-> generate /\ ~served
                                            /\ reply[1] \in {"text", "raise"},
                              prior |-> prior]
                  /\ data_cache' = <<entry>>
                  /\ ai_cache' =
                       IF memoize
                       THEN (ac \ stale) \cup
                            {[period_key |-> pk, payload |-> out.payload,
                              value |-> value, t |-> clock]}
                       ELSE ac
                  /\ narrated' =
                       IF memoize /\ reply[1] = "text"
                       THEN {n \in narrated : n.period_key # pk} \cup
                            {[period_key |-> pk, text |-> reply[2], t |-> clock]}
                       ELSE narrated
                  /\ presses' = IF generate THEN presses + 1 ELSE presses
                  /\ UNCHANGED <<sheet, clock, lib>>

\* Time passes between two runs.
Tick(t) ==
    /\ t > clock
    /\ clock' = t
    /\ UNCHANGED <<sheet, data_cache, ai_cache, narrated, lib, view, presses>>

\* The spreadsheet is edited outside the program.
EditSheet(s) ==
    /\ s # sheet
    /\ sheet' = s
    /\ UNCHANGED <<clock, data_cache, ai_cache, narrated, lib, view, presses>>

NoView ==
    [selected_months |-> <<>>, generate |-> FALSE,
     loaded |-> FALSE, src |-> None, halted |-> FALSE,
     error |-> <<>>, df |-> <<>>, out |-> None, ai |-> None,
     ai_called |-> FALSE, prior |-> None]

Libs == [observed : BOOLEAN, stable : BOOLEAN]

InitWith(sheets, libs) ==
    /\ sheet \in sheets
    /\ lib \in libs
    /\ clock = 0
    /\ data_cache = <<>>
    /\ ai_cache = {}
    /\ narrated = {}
    /\ view = NoView
    /\ presses = 0

(***************************************************************************)
(* The sheets, selections and instants the model is checked on             *)
(***************************************************************************)
\* Header lines: each column's header text and the cell of the base row it
\* carries (0: a column of its own).
PlainHeaders ==
    <<<<<<"D", "a", "t", "e">>, 1>>,
      <<<<"T", "i", "t", "l", "e">>, 2>>,
      <<<<"C", "a", "t", "e", "g", "o", "r", "y">>, 3>>,
      <<<<"T", "y", "p", "e">>, 4>>,
      <<<<"A", "m", "o", "u", "n", "t">>, 5>>>>
PaddedHeaders ==
    <<<<<<"A", "m", "o", "u", "n", "t", " ">>, 5>>,
      <<<<" ", "D", "a", "t", "e">>, 1>>,
      <<<<"T", "i", "t", "l", "e", "\t">>, 2>>,
      <<<<" ", "C", "a", "t", "e", "g", "o", "r", "y", " ">>, 3>>,
      <<<<"T", "y", "p", "e">>, 4>>>>
NoAmountHeaders ==
    <<<<<<"D", "a", "t", "e">>, 1>>,
      <<<<"T", "i", "t", "l", "e">>, 2>>,
      <<<<"C", "a", "t", "e", "g", "o", "r", "y">>, 3>>,
      <<<<"T", "y", "p", "e">>, 4>>>>
LowerAmountHeaders ==
    <<<<<<"D", "a", "t", "e">>, 1>>,
      <<<<"T", "i", "t", "l", "e">>, 2>>,
      <<<<"C", "a", "t", "e", "g", "o", "r", "y">>, 3>>,
      <<<<"T", "y", "p", "e">>, 4>>,
      <<<<"a", "m", "o", "u", "n", "t">>, 5>>>>
NoCategoryTypeHeaders ==
    <<<<<<"D", "a", "t", "e">>, 1>>,
      <<<<"T", "i", "t", "l", "e">>, 2>>,
      <<<<"N", "o", "t", "e", "s">>, 0>>,
      <<<<"A", "m", "o", "u", "n", "t">>, 5>>>>
NotesOnlyHeaders ==
    <<<<<<"N", "o", "t", "e", "s">>, 0>>>>

HeaderVariants ==
    {PlainHeaders,
     PaddedHeaders,
     NoAmountHeaders,
     LowerAmountHeaders,
     NoCategoryTypeHeaders,
     NotesOnlyHeaders}

\* Rows of raw cells <<Date, Title, Category, Type, Amount>> with the cell
\* shapes the cleaning rules are about.
LoadRows ==
    <<<<<<"2", "0", "2", "4", "-", "0", "1", "-", "1", "5">>, <<"R", "e", "n", "t">>, <<" ", " ">>, <<"A", "c", "t", "u", "a", "l">>, <<"$", "1", ",", "2", "0", "0">>>>,
      <<<<"2", "0", "2", "4", "-", "0", "1", "-", "2", "0">>, <<" ", "G", "a", "s", " ">>, <<" ", "F", "o", "o", "d", " ">>, <<"A", "c", "t", "u", "a", "l", " ">>, <<"a", "b", "c">>>>,
      <<<<"2", "0", "2", "4", "-", "0", "3", "-", "0", "2">>, <<"G", "a", "s">>, <<>>, <<"E", "x", "p", "e", "c", "t", "e", "d">>, <<"4", "0">>>>,
      <<<<"n", "/", "a">>, <<"G", "i", "f", "t">>, <<"I", "n", "c", "o", "m", "e">>, <<"A", "c", "t", "u", "a", "l">>, <<"-", "5">>>>,
      <<<<"2", "0", "2", "4", "-", "0", "3", "-", "0", "9">>, <<"P", "a", "y">>, <<"I", "n", "c", "o", "m", "e">>, <<"A", "c", "t", "u", "a", "l">>, <<>>>>,
      <<<<"2", "0", "2", "4", "-", "0", "2", "-", "3", "0">>, <<"T", "e", "a">>, <<"\t">>, <<"A", "c", "t", "u", "a", "l">>, <<"7">>>>,
      <<<<"2", "0", "2", "4", "-", "0", "1", "-", "0", "2">>, <<"T", "e", "a">>, <<"F", "o", "o", "d">>, <<"A", "c", "t", "u", "a", "l">>, <<"1", ",", "0", "$", "0">>>>>>

\* Rows for the aggregate tables: several categories, months and types.
AggRows ==
    <<<<<<"2", "0", "2", "4", "-", "0", "1", "-", "0", "5">>, <<"G", "r", "o", "c", "e", "r", "i", "e", "s">>, <<"F", "o", "o", "d">>, <<"A", "c", "t", "u", "a", "l">>, <<"5", "0", "0">>>>,
      <<<<"2", "0", "2", "4", "-", "0", "1", "-", "0", "6">>, <<"G", "r", "o", "c", "e", "r", "i", "e", "s">>, <<"F", "o", "o", "d">>, <<"E", "x", "p", "e", "c", "t", "e", "d">>, <<"4", "5", "0">>>>,
      <<<<"2", "0", "2", "4", "-", "0", "2", "-", "0", "3">>, <<"R", "e", "n", "t">>, <<"R", "e", "n", "t">>, <<"A", "c", "t", "u", "a", "l">>, <<"1", "2", "0", "0">>>>,
      <<<<"2", "0", "2", "4", "-", "0", "3", "-", "0", "4">>, <<"C", "i", "n", "e", "m", "a">>, <<"F", "u", "n">>, <<"A", "c", "t", "u", "a", "l">>, <<"9", "0", "0">>>>,
      <<<<"2", "0", "2", "4", "-", "0", "1", "-", "3", "1">>, <<"S", "a", "l", "a", "r", "y">>, <<"I", "n", "c", "o", "m", "e">>, <<"A", "c", "t", "u", "a", "l">>, <<"3", "0", "0", "0">>>>,
      <<<<"2", "0", "2", "4", "-", "0", "2", "-", "0", "1">>, <<"L", "o", "a", "n">>, <<"H", "o", "m", "e", " ", "m", "o", "r", "t", "g", "a", "g", "e">>, <<"A", "c", "t", "u", "a", "l">>, <<"2", "0", "0", "0">>>>,
      <<<<"2", "0", "2", "4", "-", "0", "1", "-", "0", "9">>, <<"S", "n", "a", "c", "k", "s">>, <<"F", "o", "o", "d">>, <<"A", "c", "t", "u", "a", "l">>, <<"5", "0", "0">>>>,
      <<<<"2", "0", "2", "4", "-", "0", "3", "-", "1", "0">>, <<"R", "e", "n", "t">>, <<"R", "e", "n", "t">>, <<"E", "x", "p", "e", "c", "t", "e", "d">>, <<"1", "3", "0", "0">>>>,
      <<<<"2", "0", "2", "4", "-", "0", "1", "-", "1", "2">>, <<"F", "u", "n", "d">>, <<"I", "n", "v", "e", "s", "t", "m", "e", "n", "t", "s">>, <<"A", "c", "t", "u", "a", "l">>, <<"7", "0", "0">>>>,
      <<<<"2", "0", "2", "4", "-", "0", "3", "-", "1", "5">>, <<"B", "o", "n", "u", "s">>, <<"I", "n", "c", "o", "m", "e">>, <<"E", "x", "p", "e", "c", "t", "e", "d">>, <<"1", "0", "0">>>>>>

\* Nine titles that every sheet of the top-10 catalogue holds ...
TopBaseRows ==
    <<<<<<"2", "0", "2", "4", "-", "0", "1", "-", "0", "1">>, <<"A">>, <<"F", "o", "o", "d">>, <<"A", "c", "t", "u", "a", "l">>, <<"9", "0">>>>,
      <<<<"2", "0", "2", "4", "-", "0", "1", "-", "0", "2">>, <<"B">>, <<"F", "o", "o", "d">>, <<"A", "c", "t", "u", "a", "l">>, <<"8", "0">>>>,
      <<<<"2", "0", "2", "4", "-", "0", "1", "-", "0", "3">>, <<"C">>, <<"F", "o", "o", "d">>, <<"A", "c", "t", "u", "a", "l">>, <<"7", "0">>>>,
      <<<<"2", "0", "2", "4", "-", "0", "1", "-", "0", "4">>, <<"D">>, <<"F", "o", "o", "d">>, <<"A", "c", "t", "u", "a", "l">>, <<"6", "0">>>>,
      <<<<"2", "0", "2", "4", "-", "0", "1", "-", "0", "5">>, <<"E">>, <<"F", "o", "o", "d">>, <<"A", "c", "t", "u", "a", "l">>, <<"5", "0">>>>,
      <<<<"2", "0", "2", "4", "-", "0", "1", "-", "0", "6">>, <<"F">>, <<"F", "o", "o", "d">>, <<"A", "c", "t", "u", "a", "l">>, <<"4", "0">>>>,
      <<<<"2", "0", "2", "4", "-", "0", "1", "-", "0", "7">>, <<"G">>, <<"F", "o", "o", "d">>, <<"A", "c", "t", "u", "a", "l">>, <<"3", "0">>>>,
      <<<<"2", "0", "2", "4", "-", "0", "1", "-", "0", "8">>, <<"H">>, <<"F", "o", "o", "d">>, <<"A", "c", "t", "u", "a", "l">>, <<"2", "0">>>>,
      <<<<"2", "0", "2", "4", "-", "0", "1", "-", "0", "9">>, <<"I">>, <<"F", "o", "o", "d">>, <<"A", "c", "t", "u", "a", "l">>, <<"1", "0">>>>>>

\* ... and the rows it may hold besides.
TopExtraRows ==
    <<<<<<"2", "0", "2", "4", "-", "0", "2", "-", "0", "1">>, <<"J">>, <<"F", "o", "o", "d">>, <<"A", "c", "t", "u", "a", "l">>, <<"5", "5">>>>,
      <<<<"2", "0", "2", "4", "-", "0", "2", "-", "0", "2">>, <<"M", "o", "r", "t", "g", "a", "g", "e", " ", "f", "e", "e">>, <<"H", "o", "u", "s", "i", "n", "g">>, <<"A", "c", "t", "u", "a", "l">>, <<"5", "0", "0">>>>,
      <<<<"2", "0", "2", "4", "-", "0", "2", "-", "0", "3">>, <<"L", "o", "a", "n">>, <<"M", "O", "R", "T", "G", "A", "G", "E">>, <<"A", "c", "t", "u", "a", "l">>, <<"9", "9", "9">>>>,
      <<<<"2", "0", "2", "4", "-", "0", "2", "-", "0", "4">>, <<"L">>, <<"F", "u", "n">>, <<"A", "c", "t", "u", "a", "l">>, <<"5", "0">>>>,
      <<<<"2", "0", "2", "4", "-", "0", "2", "-", "0", "5">>, <<"K">>, <<"F", "u", "n">>, <<"A", "c", "t", "u", "a", "l">>, <<"5">>>>,
      <<<<"2", "0", "2", "4", "-", "0", "3", "-", "0", "1">>, <<"I">>, <<"F", "o", "o", "d">>, <<"A", "c", "t", "u", "a", "l">>, <<"4", "5">>>>,
      <<<<"2", "0", "2", "4", "-", "0", "3", "-", "0", "2">>, <<"P", "a", "y">>, <<"I", "n", "c", "o", "m", "e">>, <<"A", "c", "t", "u", "a", "l">>, <<"5", "0", "0", "0">>>>>>


\* The rows of a list at the positions S, in the list's order.
Pick(list, S) ==
    as_seq([k \in 1..Cardinality(S) |->
       list[CHOOSE i \in S : Cardinality({j \in S : j < i}) = k - 1]])

\* The CSV with header line hv over the base rows.
MkSheet(hv, rows) ==
    [headers |-> as_seq([i \in DOMAIN hv |-> hv[i][1]]),
     rows |-> as_seq([r \in DOMAIN rows |->
                 as_seq([i \in DOMAIN hv |->
                    IF hv[i][2] = 0 THEN <<"x">> ELSE rows[r][hv[i][2]]])])]

LoadN == 5
AggN == 7
TopExtraN == 5

LoadSheets ==
    {MkSheet(hv, Pick(LoadRows, S)) : hv \in HeaderVariants, S \in SUBSET (1..LoadN)}

AggSheets == {MkSheet(PlainHeaders, Pick(AggRows, S)) : S \in SUBSET (1..AggN)}

TopSheets ==
    {MkSheet(PlainHeaders, TopBaseRows \o Pick(TopExtraRows, S)) :
        S \in SUBSET (1..TopExtraN)}

\* What the month multiselect can hold: its default (every month, line 84)
\* and selections the user made, in the order of selecting.
Selections ==
    {MONTH_ORDER, <<>>, <<"January">>, <<"March", "January">>,
     <<"February", "March">>}

\* The sheets of the full model: two well-formed sheets with different data
\* and one whose header line lacks Amount.
CacheSheets ==
    {MkSheet(PlainHeaders, Pick(AggRows, {1, 2})),
     MkSheet(PlainHeaders, Pick(AggRows, {1, 3})),
     MkSheet(NoAmountHeaders, Pick(AggRows, {1}))}

CacheSelections == {MONTH_ORDER, <<"January">>}

\* The instants at which something happens.
Instants == {0, 60, 3600}

(***************************************************************************)
(* Specifications                                                          *)
(***************************************************************************)
\* The program with its caches: runs, passing time, edits of the sheet.
Init == InitWith(CacheSheets, {[observed |-> FALSE, stable |-> TRUE]})

MaxPresses == 2

Buttons == IF presses < MaxPresses THEN BOOLEAN ELSE {FALSE}

Next ==
    \/ \E refresh \in BOOLEAN, sel \in CacheSelections : Run(refresh, sel, Buttons)
    \/ \E t \in Instants : Tick(t)
    \/ \E s \in CacheSheets : EditSheet(s)

Spec == Init /\ [][Next]_vars

\* A run over every sheet of a catalogue, for the properties of the tables.
View(selected_months) == Run(TRUE, selected_months, {FALSE})

InitLoad == InitWith(LoadSheets, Libs)
NextLoad == \E sel \in Selections : View(sel)
SpecLoad == InitLoad /\ [][NextLoad]_vars

InitAgg == InitWith(AggSheets, Libs)
NextAgg == \E sel \in Selections : View(sel)
SpecAgg == InitAgg /\ [][NextAgg]_vars

InitTop == InitWith(TopSheets, Libs)
NextTop == \E sel \in Selections : View(sel)
SpecTop == InitTop /\ [][NextTop]_vars

(***************************************************************************)
(* Properties                                                              *)
(***************************************************************************)
\* The last run read the sheet and drew the page.
Rendered == view.loaded /\ ~view.halted

\* The raw cell of source row r under the header that trims to name.
src_cell(r, name) == view.src.rows[r][col_index(columns(view.src), name)]

\* The rows the month filter lets through, and the expense rows among them.
shown_rows == SelectSeq(view.df, LAMBDA r : r.Month \in Range(view.selected_months))

IsExcluded(r) == r.Category \in {T_Income, T_Investment, T_Investments}

shown_expenses == SelectSeq(shown_rows, LAMBDA r : ~IsExcluded(r))

\* The months of MONTH_ORDER, in that order, in which rows has a row.
months_present(rows) ==
    SelectSeq(MONTH_ORDER, LAMBDA m : \E i \in DOMAIN rows : rows[i].Month = m)

T_Uncategorized ==
    <<"U", "n", "c", "a", "t", "e", "g", "o", "r", "i", "z", "e", "d">>

\* C1: after load_data's cleaning every row's Category is a non-empty text,
\* and every row whose source Category is empty or only whitespace has
\* Category exactly "Uncategorized".
C1_CategorySentinel ==
    Rendered =>
        \A r \in DOMAIN view.df :
            /\ view.df[r].Category # <<>>
            /\ view.df[r].Category # NaN
            /\ strip(src_cell(r, T_Category)) = <<>>
                   => view.df[r].Category = T_Uncategorized

\* C2: in a run that reads the source, the run halts exactly when some of
\* Date, Title, Category, Type, Amount is not among the trimmed headers; it
\* then reports exactly the missing ones, each once, and nothing of the page
\* is computed; when none is missing no error is reported and the page is
\* drawn.
C2_MissingColumns ==
    view.loaded =>
        LET present == {strip(h) : h \in Range(view.src.headers)}
            absent == {c \in Range(required_cols) : c \notin present}
        IN /\ view.halted <=> absent # {}
           /\ Range(view.error) = absent
           /\ Len(view.error) = Cardinality(absent)
           /\ view.halted => view.out = None /\ view.df = <<>>
           /\ ~view.halted => view.out # None

C2_Witness ==
    /\ view.loaded
    /\ view.halted
    /\ Len(view.error) = 2
    /\ T_Date \in Range(view.src.headers)

\* The Amount cell of source row r does not coerce to a number.
NotCoercible(r) ==
    ~to_numeric(str_remove(str_remove(astype_str(read_cell(src_cell(r, T_Amount))),
                                      ","), "$")).ok

RECURSIVE sum_variance(_)
sum_variance(t) ==
    IF t = <<>> THEN 0 ELSE Head(t).Variance + sum_variance(Tail(t))

\* C7: a row whose Amount does not coerce to a number is not dropped and does
\* not stop the load: the cleaned table has one record per source row, that
\* row's Amount is 0, every sum of the page is what it is without the row,
\* and the row is listed in the raw-data view when its month is selected.
C7_UncoercibleAmountIsZero ==
    Rendered =>
        /\ Len(view.df) = Len(view.src.rows)
        /\ Len(view.out.raw) = Len(shown_rows)
        /\ \A r \in DOMAIN view.df :
               NotCoercible(r) =>
                   /\ view.df[r].Amount = 0
                   /\ view.df[r].Month \in Range(view.selected_months)
                          => \E k \in DOMAIN view.out.raw : view.out.raw[k] = view.df[r]
        /\ LET coerced == {r \in DOMAIN view.df : ~NotCoercible(r)}
               without == render(Pick(view.df, coerced), view.selected_months, lib)
           IN /\ view.out.metrics = without.metrics
              /\ sum_amount(view.out.summary) = sum_amount(without.summary)
              /\ sum_amount(view.out.trend) = sum_amount(without.trend)
              /\ sum_amount(view.out.top10) = sum_amount(without.top10)
              /\ sum_variance(view.out.variance) = sum_variance(without.variance)

C7_Witness ==
    /\ Rendered
    /\ \E r \in DOMAIN view.df :
           /\ NotCoercible(r)
           /\ src_cell(r, T_Amount) # <<>>
           /\ view.df[r].Amount = 0
           /\ \E k \in DOMAIN view.out.raw : view.out.raw[k] = view.df[r]
    /\ view.out.metrics.actual_expenses > 0

\* The rows that feed the summary table: the shown expense rows whose
\* Category does not contain "Mortgage".
summary_rows ==
    SelectSeq(shown_expenses, LAMBDA r : ~str_contains(r.Category, T_Mortgage))

\* C3: the variance table has one row per category of the rows feeding the
\* summary table; its Actual and Expected are that category's sums of Actual
\* and of Expected amounts (0 when there is no such row) and its Variance is
\* Actual minus Expected: 500 and 450 give 50, and a category without an
\* Expected row has Variance equal to its Actual sum.
C3_VarianceIsActualMinusExpected ==
    Rendered =>
        LET v == view.out.variance
            actual(c) == sum_amount(SelectSeq(summary_rows,
                             LAMBDA r : r.Category = c /\ r.Type = T_Actual))
            expected(c) == sum_amount(SelectSeq(summary_rows,
                               LAMBDA r : r.Category = c /\ r.Type = T_Expected))
        IN /\ {v[k].Category : k \in DOMAIN v}
                  = {summary_rows[i].Category : i \in DOMAIN summary_rows}
           /\ \A j, k \in DOMAIN v : v[j].Category = v[k].Category => j = k
           /\ \A k \in DOMAIN v :
                  /\ v[k].Actual = actual(v[k].Category)
                  /\ v[k].Expected = expected(v[k].Category)
                  /\ v[k].Variance = actual(v[k].Category) - expected(v[k].Category)
                  /\ v[k].Actual = 500 /\ v[k].Expected = 450 => v[k].Variance = 50
                  /\ (\A i \in DOMAIN summary_rows :
                          summary_rows[i].Category = v[k].Category
                              => summary_rows[i].Type # T_Expected)
                         => v[k].Variance = actual(v[k].Category)

C3_Witness ==
    /\ Rendered
    /\ \E k \in DOMAIN view.out.variance :
           /\ view.out.variance[k].Actual = 500
           /\ view.out.variance[k].Expected = 450
           /\ view.out.variance[k].Variance = 50
    /\ \E k \in DOMAIN view.out.variance :
           /\ view.out.variance[k].Variance = 1200
           /\ \A i \in DOMAIN summary_rows :
                  summary_rows[i].Category = view.out.variance[k].Category
                      => summary_rows[i].Type # T_Expected

\* The loaded rows without those of the categories Income, Investment and
\* Investments.
df_without_excluded == SelectSeq(view.df, LAMBDA r : ~IsExcluded(r))

\* C6: no row of Category Income, Investment or Investments contributes to
\* the expense metrics, the category summary, the monthly trend, the top-10
\* or the variance table: each is what it is with those rows taken out of the
\* data, and none names such a category; the Income Actual metric is the sum
\* of Amount over the shown rows with Category Income and Type Actual.
C6_IncomeOutOfExpenses ==
    Rendered =>
        LET o == view.out
            w == render(df_without_excluded, view.selected_months, lib)
        IN /\ o.metrics.expected_expenses
                  = sum_amount(SelectSeq(shown_rows,
                        LAMBDA r : ~IsExcluded(r) /\ r.Type = T_Expected))
           /\ o.metrics.actual_expenses
                  = sum_amount(SelectSeq(shown_rows,
                        LAMBDA r : ~IsExcluded(r) /\ r.Type = T_Actual))
           /\ o.metrics.variance_expenses
                  = o.metrics.actual_expenses - o.metrics.expected_expenses
           /\ o.summary = w.summary
           /\ o.trend = w.trend
           /\ o.top10 = w.top10
           /\ o.variance = w.variance
           /\ \A k \in DOMAIN o.summary : ~IsExcluded(o.summary[k])
           /\ \A k \in DOMAIN o.variance : ~IsExcluded(o.variance[k])
           /\ o.metrics.income_actual
                  = sum_amount(SelectSeq(shown_rows,
                        LAMBDA r : r.Category = T_Income /\ r.Type = T_Actual))

C6_Witness ==
    /\ Rendered
    /\ view.out.metrics.income_actual = 3000
    /\ view.out.metrics.actual_expenses > 0
    /\ \E i \in DOMAIN shown_rows : shown_rows[i].Category = T_Income
    /\ \E k \in DOMAIN view.out.top10 : view.out.top10[k].Amount > 0

\* The filtered Actual expense series.
actual_expenses_shown == SelectSeq(shown_expenses, LAMBDA r : r.Type = T_Actual)

\* C4: month_over_month is null unless at least two distinct months have rows
\* in the filtered Actual expense series; when it is not null, prev_month and
\* last_month are the two last months, in January..December order, that have
\* rows in that series, prev_amount and last_amount are their Actual sums and
\* change is last_amount - prev_amount.
C4_MonthOverMonth ==
    Rendered =>
        LET mom == view.out.payload.month_over_month
            present == months_present(actual_expenses_shown)
            n == Len(present)
            total(m) == sum_amount(SelectSeq(actual_expenses_shown, LAMBDA r : r.Month = m))
        IN mom # None =>
               /\ n >= 2
               /\ mom.prev_month = present[n - 1]
               /\ mom.last_month = present[n]
               /\ mom.prev_amount = total(present[n - 1])
               /\ mom.last_amount = total(present[n])
               /\ mom.change = mom.last_amount - mom.prev_amount

\* C8: the monthly trend lists months in January..December order, each with
\* the sum of its Actual expense amounts, and lists exactly the months that
\* have rows in the filtered data: every month with a row in the filtered
\* Actual expense series, and no month without a row in the filtered data.
C8_MonthlyTrend ==
    Rendered =>
        LET t == view.out.trend
        IN /\ \A j, k \in DOMAIN t :
                  j < k => month_index(t[j].Month) < month_index(t[k].Month)
           /\ \A k \in DOMAIN t :
                  t[k].Amount
                      = sum_amount(SelectSeq(actual_expenses_shown,
                            LAMBDA r : r.Month = t[k].Month))
           /\ \A m \in Range(months_present(actual_expenses_shown)) :
                  \E k \in DOMAIN t : t[k].Month = m
           /\ \A k \in DOMAIN t :
                  t[k].Month \in Range(months_present(shown_rows))

\* C10: biggest_over_budget and biggest_under_budget are taken from the
\* variance table the page shows: both are null exactly when that table has
\* no rows; otherwise biggest_over_budget names a row of the table whose
\* Variance is the table's maximum, with delta equal to it, and
\* biggest_under_budget one whose Variance is the minimum.
C10_BiggestFromVarianceTable ==
    Rendered =>
        LET v == view.out.variance
            over == view.out.payload.biggest_over_budget
            under == view.out.payload.biggest_under_budget
        IN IF v = <<>>
           THEN over = None /\ under = None
           ELSE /\ over # None
                /\ under # None
                /\ \E k \in DOMAIN v :
                       /\ v[k].Category = over.Category
                       /\ v[k].Variance = over.delta
                       /\ \A j \in DOMAIN v : v[j].Variance <= v[k].Variance
                /\ \E k \in DOMAIN v :
                       /\ v[k].Category = under.Category
                       /\ v[k].Variance = under.delta
                       /\ \A j \in DOMAIN v : v[j].Variance >= v[k].Variance

\* top is a listing of the min(10, number of titles) largest title sums of
\* rows: each listed title once with its sum, the sums in descending order,
\* and no sum left out larger than a listed one.
IsTopTen(top, rows) ==
    LET titles == {rows[i].Title : i \in DOMAIN rows}
        total(t) == sum_amount(SelectSeq(rows, LAMBDA r : r.Title = t))
        listed == {top[k].Title : k \in DOMAIN top}
    IN /\ Len(top) = IF Cardinality(titles) < 10 THEN Cardinality(titles) ELSE 10
       /\ listed \subseteq titles
       /\ Cardinality(listed) = Len(top)
       /\ \A k \in DOMAIN top : top[k].Amount = total(top[k].Title)
       /\ \A j, k \in DOMAIN top : j < k => top[j].Amount >= top[k].Amount
       /\ \A t \in titles \ listed : \A k \in DOMAIN top : top[k].Amount >= total(t)

\* C5 as stated: the top-10 table lists the min(10, number of titles) titles
\* with the largest sums of the filtered Actual expense rows grouped by Title,
\* in descending order of sum, and none of its titles contains "Mortgage" in
\* any letter case.
C5_Top10ExcludesMortgageTitles ==
    Rendered =>
        /\ IsTopTen(view.out.top10,
               SelectSeq(actual_expenses_shown,
                   LAMBDA r : ~str_contains(r.Title, T_Mortgage)))
        /\ \A k \in DOMAIN view.out.top10 :
               ~str_contains(view.out.top10[k].Title, T_Mortgage)

\* C5 amended: the exclusion is by Category.  The top-10 table lists the
\* min(10, number of titles) titles with the largest sums of the filtered
\* Actual expense rows whose Category does not contain "Mortgage" in any
\* letter case, grouped by Title, in descending order of sum.
C5_Top10ExcludesMortgageCategories ==
    Rendered =>
        IsTopTen(view.out.top10,
            SelectSeq(actual_expenses_shown,
                LAMBDA r : ~str_contains(r.Category, T_Mortgage)))

C5_Witness ==
    /\ Rendered
    /\ Len(view.out.top10) = 10
    /\ \E k \in DOMAIN view.out.top10 :
           str_contains(view.out.top10[k].Title, T_Mortgage)
    /\ \E i \in DOMAIN actual_expenses_shown :
           /\ str_contains(actual_expenses_shown[i].Category, T_Mortgage)
           /\ actual_expenses_shown[i].Amount > view.out.top10[1].Amount
    /\ \E i \in DOMAIN actual_expenses_shown :
           /\ ~str_contains(actual_expenses_shown[i].Category, T_Mortgage)
           /\ \A k \in DOMAIN view.out.top10 :
                  view.out.top10[k].Title # actual_expenses_shown[i].Title

\* C9: the narrative request is sent only in a run in which the generate
\* button was pressed, and once a narrative has been memoized for a month
\* selection, a generate action with that selection within the narrative TTL
\* sends no request and shows the memoized narrative, whatever happened to
\* the data snapshot in between.
C9_NarrativeMemoBySelection ==
    /\ view.ai_called => view.generate
    /\ view.generate /\ view.prior # None =>
           /\ ~view.ai_called
           /\ view.ai = [kind |-> "text", text |-> view.prior.text]

\* States in which the cases above occur.
C1_Witness ==
    /\ Rendered
    /\ \E r \in DOMAIN view.df :
           /\ src_cell(r, T_Category) = <<" ", " ">>
           /\ view.df[r].Category = CategoryFill

C4_Witness ==
    /\ Rendered
    /\ Len(months_present(actual_expenses_shown)) = 1
    /\ view.out.payload.month_over_month # None
    /\ view.out.payload.month_over_month.last_month = "December"

C8_Witness ==
    /\ Rendered
    /\ months_present(shown_rows) = <<"January", "March">>
    /\ Len(view.out.trend) = 12

C9_Witness ==
    /\ view.generate
    /\ view.prior # None
    /\ view.ai_called
    /\ view.ai.kind = "text"
    /\ view.ai.text # view.prior.text

C10_Witness ==
    /\ Rendered
    /\ view.out.variance # <<>>
    /\ view.out.payload.biggest_over_budget # None
    /\ str_contains(view.out.payload.biggest_over_budget.Category, T_Mortgage)

====
